---- MODULE Spec2Model ----
(***************************************************************************)
(* Model of firebolt_cli/completer.py: the autocompleter of the SQL        *)
(* command line.  One background thread (populate_table_and_column_names)  *)
(* loads table and column names; the foreground calls get_completions.     *)
(*                                                                         *)
(* A Python str is modelled as a sequence of one-character strings; the    *)
(* fixed pieces of markup and of the meta text are single tokens.          *)
(***************************************************************************)
EXTENDS Integers, Sequences, FiniteSets, TLC

(***************************************************************************)
(* Bounds of the model.                                                    *)
(***************************************************************************)
MaxLen == 2
MaxRows == 2
MaxTokLen == 4
MaxWordLen == 2
MaxLabelLen == 3

(***************************************************************************)
(* Characters of the input texts of the concurrent specification, and of   *)
(* the tokenizer's specification (every delimiter of the code, one letter).*)
(***************************************************************************)
Alphabet == {"a", "s", " "}
TokAlphabet == {" ", ",", "\n", ")", ";", "(", ".", "a"}

\* the character U+00DF (sharp s), whose upper-case form is the two characters SS
Eszett == "sz"

\* characters of the text before the cursor and of the labels of the renderer's
\* specification: a letter, the sharp s, a delimiter, the markup characters
WordAlphabet == {"s", Eszett, "<", ">", " "}
LabelAlphabet == {"s", Eszett, "<", ">", "&"}

RECURSIVE SeqsUpTo(_, _)
SeqsUpTo(S, n) ==
    IF n = 0 THEN {<<>>}
    ELSE LET shorter == SeqsUpTo(S, n - 1)
         IN  shorter \cup {Append(s, c) : s \in {t \in shorter : Len(t) = n - 1}, c \in S}

Texts == SeqsUpTo(Alphabet, MaxLen)
TokTexts == SeqsUpTo(TokAlphabet, MaxTokLen)
WordTexts == SeqsUpTo(WordAlphabet, MaxWordLen)
LabelTexts == SeqsUpTo(LabelAlphabet, MaxLabelLen)

(***************************************************************************)
(* Python string primitives.                                               *)
(***************************************************************************)
Max(S) == CHOOSE x \in S : \A y \in S : y <= x

\* text[lo:hi] with 0-based, already clamped bounds
Slice(text, lo, hi) == [i \in 1..(IF hi > lo THEN hi - lo ELSE 0) |-> text[lo + i]]

\* text[:n], n >= 0, clamped to the length as Python does
Prefix(text, n) == Slice(text, 0, IF n > Len(text) THEN Len(text) ELSE n)

\* text[n:], n >= 0, clamped to the length as Python does
Suffix(text, n) == Slice(text, IF n > Len(text) THEN Len(text) ELSE n, Len(text))

\* str.find of a one-character string: 0-based index of the first occurrence, or -1
find(text, d) ==
    LET hits == {j \in 1..Len(text) : text[j] = d}
    IN  IF hits = {} THEN -1 ELSE (CHOOSE j \in hits : \A k \in hits : j <= k) - 1

\* str.rfind of a one-character string: 0-based index of the last occurrence, or -1
rfind(text, d) == Max({-1} \cup {i - 1 : i \in {j \in 1..Len(text) : text[j] = d}})

\* str.upper of one character: the upper-cased string it expands to
UpperChar(c) ==
    CASE c = "a" -> <<"A">>
      [] c = "s" -> <<"S">>
      [] c = Eszett -> <<"S", "S">>
      [] OTHER   -> <<c>>

RECURSIVE upper(_)
upper(text) ==
    IF text = <<>> THEN <<>> ELSE UpperChar(Head(text)) \o upper(Tail(text))

\* str.startswith
startswith(text, p) == Len(p) <= Len(text) /\ Prefix(text, Len(p)) = p

\* the operator `sub in text` on strings
contains(text, sub) ==
    \E k \in 0..(Len(text) - Len(sub)) : Slice(text, k, k + Len(sub)) = sub

(***************************************************************************)
(* The static lists of firebolt_cli.keywords (a short excerpt) and the     *)
(* rows the information schema may hold: (table_name, column_name,         *)
(* data_type).                                                             *)
(***************************************************************************)
KEYWORDS == << <<"A", "L", "L">>, <<"A", "S">> >>
FUNCTIONS == << <<"A", "B", "S">>, <<"S", "U", "M">> >>

RowUniverse ==
    { << <<"s">>, <<"a", "s">>, <<"i", "n", "t">> >>,
      << <<"s">>, <<"A">>, <<"t", "e", "x", "t">> >>,
      << <<"a", "a">>, <<"A">>, <<"i", "n", "t">> >>,
      << <<"a", "&">>, <<"A">>, <<"i", "n", "t">> >> }

\* what cursor.fetchall() may return
DataChoices == SeqsUpTo(RowUniverse, MaxRows)

Range(f) == {f[i] : i \in DOMAIN f}

\* every list holding the elements of the set S once each
Orderings(S) ==
    {p \in [1..Cardinality(S) -> S] : \A x \in S : \E i \in DOMAIN p : p[i] = x}

(***************************************************************************)
(* State.                                                                  *)
(***************************************************************************)
VARIABLES
    column_names,         \* self.column_names
    suggestions,          \* self.suggestions: list of (label, meta)
    lpc,                  \* position of the loader thread
    data,                 \* loader local: the fetched rows
    table_names,          \* loader local: list(set(...)), then the part not yet appended
    executed,             \* number of cursor.execute calls made
    raised,               \* the error the cursor has raised in the loader, or "none"
    fpc,                  \* position of the foreground get_completions call
    text,                 \* document.text of the call
    cursor_position,      \* document.cursor_position of the call
    last_word,            \* local last_word
    columns,              \* local: the list the comprehension built
    current_suggestions,  \* local current_suggestions
    pos,                  \* number of items of current_suggestions the for loop has taken
    out,                  \* the Completions yielded so far
    phase,                \* what the loader had done when the call read the shared state
    tok_pc,               \* a direct extract_last_word call: "call", then "done"
    tok_text,             \* its argument
    tok_word,             \* its result
    rnd_pc,               \* the matching and rendering of one candidate: "call", "done"
    rnd_before,           \* the text before the cursor
    rnd_label,            \* the label of the candidate
    rnd_out               \* the Completions yielded for it: none or one

loaderVars == <<column_names, suggestions, lpc, data, table_names, executed, raised>>
callVars == <<fpc, text, cursor_position, last_word, columns, current_suggestions,
              pos, out, phase>>
tokVars == <<tok_pc, tok_text, tok_word, rnd_pc, rnd_before, rnd_label, rnd_out>>
vars == <<column_names, suggestions, lpc, data, table_names, executed, raised,
          fpc, text, cursor_position, last_word, columns, current_suggestions,
          pos, out, phase, tok_pc, tok_text, tok_word,
          rnd_pc, rnd_before, rnd_label, rnd_out>>

(***************************************************************************)
(* Pure functions of the module.                                           *)
(***************************************************************************)
delimiters == <<" ", ",", "\n", ")", ";", "(", ".">>

extract_last_word(t) ==
    LET last_position == Max({rfind(t, delimiters[k]) : k \in DOMAIN delimiters})
    IN  Suffix(t, last_position + 1)

\* str.replace of one character by a token
replace(t, old, new) == [i \in DOMAIN t |-> IF t[i] = old THEN new ELSE t[i]]

\* the f-string of prepare_display_html
Markup(label, offset) ==
    <<"<b><style color='red'>">> \o Prefix(label, offset) \o <<"</style></b>">>
        \o replace(replace(Suffix(label, offset), "<", "&#60;"), ">", "&#62;")

\* what the parser of HTML(...) accepts between the tags: any character but a
\* raw '<' and a raw '&' (a raw '>' is accepted)
WellFormed(markup) == \A i \in DOMAIN markup : markup[i] \notin {"<", "&"}

\* the outcome of a call that raises xml.parsers.expat.ExpatError
ExpatError == <<"ExpatError">>

\* HTML(...) raises on this label and offset
Raises(label, offset) == ~WellFormed(Markup(label, offset))

\* HTML(f"..."): the constructor parses the markup and raises when it is not
\* well formed
prepare_display_html(label, offset) ==
    IF Raises(label, offset) THEN ExpatError ELSE Markup(label, offset)

\* Document.text_before_cursor
text_before_cursor(t, c) == Prefix(t, c)

StaticSuggestions ==
    [i \in DOMAIN KEYWORDS |-> <<KEYWORDS[i], <<"KEYWORD">> >>]
        \o [i \in DOMAIN FUNCTIONS |-> <<FUNCTIONS[i], <<"FUNCTION">> >>]

\* (column_name, f"COLUMN ({column_type}, {tb_name})")
ColumnSuggestion(row) ==
    <<row[2], <<"COLUMN (">> \o row[3] \o <<", ">> \o row[1] \o <<")">> >>

\* a comprehension that looks for the table name before the cursor only
ColumnSuggestionsBeforeCursor(rows, t) ==
    LET hit == SelectSeq(rows, LAMBDA row :
                   contains(text_before_cursor(t, cursor_position), row[1]))
    IN  [i \in DOMAIN hit |-> ColumnSuggestion(hit[i])]

\* the list comprehension of get_completions over the rows it read
ColumnSuggestions(rows, t) ==
    LET hit == SelectSeq(rows, LAMBDA row : contains(t, row[1]))
    IN  [i \in DOMAIN hit |-> ColumnSuggestion(hit[i])]

\* the test of the for loop: label.upper().startswith(last_word)
matches(label, word) == startswith(upper(label), word)

\* Completion(label, start_position=-offset, display=..., display_meta=meta):
\* the error of prepare_display_html leaves the expression
MakeCompletion(label, meta, offset) ==
    IF Raises(label, offset) THEN ExpatError
    ELSE [text |-> label, start_position |-> -offset,
          display |-> prepare_display_html(label, offset), display_meta |-> meta]

(***************************************************************************)
(* Construction: __init__ fills the static suggestions and starts the      *)
(* thread; no call is in progress.                                         *)
(***************************************************************************)
InitCompleter ==
    /\ column_names = <<>>
    /\ suggestions = StaticSuggestions
    /\ lpc = "execute"
    /\ data = <<>>
    /\ table_names = <<>>
    /\ executed = 0
    /\ raised = "none"
    /\ fpc = "idle"
    /\ text = <<>>
    /\ cursor_position = 0
    /\ last_word = <<>>
    /\ columns = <<>>
    /\ current_suggestions = <<>>
    /\ pos = 0
    /\ out = <<>>
    /\ phase = "none"

\* no direct call of the renderer is under way
InitNoRender ==
    /\ rnd_pc = "done"
    /\ rnd_before = <<>>
    /\ rnd_label = <<>>
    /\ rnd_out = <<>>

Init ==
    /\ InitCompleter
    /\ tok_pc = "done"
    /\ tok_text = <<>>
    /\ tok_word = <<>>
    /\ InitNoRender

(***************************************************************************)
(* The loader thread, populate_table_and_column_names.                     *)
(***************************************************************************)
\* a loader that runs the query again after a FireboltError
RetryOnFireboltError == "execute"

\* where the thread ends when the query raises FireboltError: except ... pass
OnFireboltError == "abandoned"

\* what the cursor may raise: the domain error, or any other exception
Errors == {"FireboltError", "OtherError"}

\* a handler `except Exception: pass`
ExceptAnyError(e) == OnFireboltError

\* the except clause of the try statement: FireboltError is passed over, any
\* other exception leaves the function and ends the thread with that exception
Except(e) == IF e = "FireboltError" THEN OnFireboltError ELSE "crashed"

\* cursor.execute(...): returns, or raises
LoaderExecute ==
    /\ lpc = "execute"
    /\ executed' = executed + 1
    /\ \/ lpc' = "fetch" /\ raised' = raised
       \/ \E e \in Errors : raised' = e /\ lpc' = Except(e)
    /\ UNCHANGED <<column_names, suggestions, data, table_names>>
    /\ UNCHANGED callVars /\ UNCHANGED tokVars

\* a fetch that stores the rows it got before the error into self.column_names
LoaderFetchPartial ==
    /\ lpc = "fetch"
    /\ \/ \E d \in DataChoices :
              data' = d /\ lpc' = "assign" /\ column_names' = column_names /\ raised' = raised
       \/ \E d \in DataChoices \ {<<>>} :
              data' = d /\ column_names' = d /\ raised' = "FireboltError"
                  /\ lpc' = Except("FireboltError")
       \/ data' = data /\ raised' = "OtherError" /\ lpc' = Except("OtherError")
              /\ column_names' = column_names
    /\ UNCHANGED <<suggestions, table_names, executed>>
    /\ UNCHANGED callVars /\ UNCHANGED tokVars

\* a fetch that stores the rows into self.column_names as it returns
LoaderFetchEager ==
    /\ lpc = "fetch"
    /\ \/ \E d \in DataChoices :
              data' = d /\ column_names' = d /\ lpc' = "assign" /\ raised' = raised
       \/ \E e \in Errors :
              data' = data /\ raised' = e /\ lpc' = Except(e) /\ column_names' = column_names
    /\ UNCHANGED <<suggestions, table_names, executed>>
    /\ UNCHANGED callVars /\ UNCHANGED tokVars

\* data = cursor.fetchall(): returns rows, or raises
LoaderFetch ==
    /\ lpc = "fetch"
    /\ \/ \E d \in DataChoices : data' = d /\ lpc' = "assign" /\ raised' = raised
       \/ \E e \in Errors : data' = data /\ raised' = e /\ lpc' = Except(e)
    /\ UNCHANGED <<column_names, suggestions, table_names, executed>>
    /\ UNCHANGED callVars /\ UNCHANGED tokVars

\* self.column_names = data
LoaderAssign ==
    /\ lpc = "assign"
    /\ column_names' = data
    /\ lpc' = "table_names"
    /\ UNCHANGED <<suggestions, data, table_names, executed, raised>>
    /\ UNCHANGED callVars /\ UNCHANGED tokVars

\* table_names = list(set(str(d[0]) for d in data)): the set's order is any order
LoaderTableNames ==
    /\ lpc = "table_names"
    /\ \E order \in Orderings({data[i][1] : i \in DOMAIN data}) : table_names' = order
    /\ lpc' = "extend"
    /\ UNCHANGED <<column_names, suggestions, data, executed, raised>>
    /\ UNCHANGED callVars /\ UNCHANGED tokVars

\* self.suggestions.insert(0, item) for each item of the generator
LoaderExtendFront ==
    /\ lpc = "extend"
    /\ IF table_names = <<>>
       THEN /\ lpc' = "done"
            /\ UNCHANGED <<suggestions, table_names>>
       ELSE /\ suggestions' = << <<Head(table_names), <<"TABLE">> >> >> \o suggestions
            /\ table_names' = Tail(table_names)
            /\ lpc' = "extend"
    /\ UNCHANGED <<column_names, data, executed, raised>>
    /\ UNCHANGED callVars /\ UNCHANGED tokVars

\* self.suggestions.extend(generator): the list takes one item of the generator
\* at a time, and the generator runs bytecode between two items
LoaderExtend ==
    /\ lpc = "extend"
    /\ IF table_names = <<>>
       THEN /\ lpc' = "done"
            /\ UNCHANGED <<suggestions, table_names>>
       ELSE /\ suggestions' = Append(suggestions, <<Head(table_names), <<"TABLE">> >>)
            /\ table_names' = Tail(table_names)
            /\ lpc' = "extend"
    /\ UNCHANGED <<column_names, data, executed, raised>>
    /\ UNCHANGED callVars /\ UNCHANGED tokVars

Loader == LoaderExecute \/ LoaderFetch \/ LoaderAssign \/ LoaderTableNames \/ LoaderExtend

(***************************************************************************)
(* The foreground: one get_completions call at a time, its generator       *)
(* consumed item by item.                                                  *)
(***************************************************************************)
\* the loader has not yet stored anything in the completer
NothingPublished == lpc \in {"execute", "fetch", "assign"}

\* a call without the early return on an empty last word
CallNoEarlyReturn(t, c) ==
    /\ fpc = "idle"
    /\ text' = t
    /\ cursor_position' = c
    /\ last_word' = upper(extract_last_word(text_before_cursor(t, c)))
    /\ fpc' = "columns"
    /\ phase' = CASE lpc = "done" -> "after_load"
                  [] lpc = "abandoned" -> "after_abandon"
                  [] OTHER -> "overlaps"
    /\ UNCHANGED <<columns, current_suggestions, pos, out>>
    /\ UNCHANGED loaderVars /\ UNCHANGED tokVars

\* the first resumption of the generator: the last word, and the early return
Call(t, c) ==
    /\ fpc = "idle"
    /\ text' = t
    /\ cursor_position' = c
    /\ last_word' = upper(extract_last_word(text_before_cursor(t, c)))
    /\ fpc' = IF Len(last_word') = 0 THEN "done" ELSE "columns"
    /\ phase' = CASE lpc = "done" -> "after_load"
                  [] lpc = "abandoned" -> "after_abandon"
                  [] OTHER -> "overlaps"
    /\ UNCHANGED <<columns, current_suggestions, pos, out>>
    /\ UNCHANGED loaderVars /\ UNCHANGED tokVars

\* a call that joins the loader thread before it reads the rows
BuildColumnsJoined ==
    /\ fpc = "columns"
    /\ lpc \in {"done", "abandoned", "crashed"}
    /\ columns' = ColumnSuggestions(column_names, text)
    /\ fpc' = "concat"
    /\ UNCHANGED <<text, cursor_position, last_word, current_suggestions, pos, out, phase>>
    /\ UNCHANGED loaderVars /\ UNCHANGED tokVars

\* the list comprehension over self.column_names
BuildColumns ==
    /\ fpc = "columns"
    /\ columns' = ColumnSuggestions(column_names, text)
    /\ fpc' = "concat"
    /\ UNCHANGED <<text, cursor_position, last_word, current_suggestions, pos, out, phase>>
    /\ UNCHANGED loaderVars /\ UNCHANGED tokVars

\* a concatenation with the operands in the other order
ConcatColumnsFirst ==
    /\ fpc = "concat"
    /\ current_suggestions' = columns \o suggestions
    /\ phase' = IF phase = "overlaps" /\ NothingPublished THEN "before_load" ELSE phase
    /\ fpc' = "loop"
    /\ UNCHANGED <<text, cursor_position, last_word, columns, pos, out>>
    /\ UNCHANGED loaderVars /\ UNCHANGED tokVars

\* self.suggestions += [...]: the shared list is extended in place
ConcatInPlace ==
    /\ fpc = "concat"
    /\ suggestions' = suggestions \o columns
    /\ current_suggestions' = suggestions'
    /\ phase' = IF phase = "overlaps" /\ NothingPublished THEN "before_load" ELSE phase
    /\ fpc' = "loop"
    /\ UNCHANGED <<text, cursor_position, last_word, columns, pos, out>>
    /\ UNCHANGED <<column_names, lpc, data, table_names, executed, raised>>
    /\ UNCHANGED tokVars

\* current_suggestions = self.suggestions + [...]: the list is copied here
Concat ==
    /\ fpc = "concat"
    /\ current_suggestions' = suggestions \o columns
    /\ phase' = IF phase = "overlaps" /\ NothingPublished THEN "before_load" ELSE phase
    /\ fpc' = "loop"
    /\ UNCHANGED <<text, cursor_position, last_word, columns, pos, out>>
    /\ UNCHANGED loaderVars /\ UNCHANGED tokVars

\* a loop that reads the shared list again at every iteration
StepLive ==
    /\ fpc = "loop"
    /\ current_suggestions' = suggestions \o columns
    /\ IF pos >= Len(current_suggestions')
       THEN /\ fpc' = "done"
            /\ UNCHANGED <<pos, out>>
       ELSE /\ fpc' = "loop"
            /\ pos' = pos + 1
            /\ out' = IF matches(current_suggestions'[pos + 1][1], last_word)
                      THEN Append(out, MakeCompletion(current_suggestions'[pos + 1][1],
                                                      current_suggestions'[pos + 1][2],
                                                      Len(last_word)))
                      ELSE out
    /\ UNCHANGED <<text, cursor_position, last_word, columns, phase>>
    /\ UNCHANGED loaderVars /\ UNCHANGED tokVars

\* one iteration of the for loop (the item is skipped or yielded, or the
\* error of prepare_display_html leaves the generator), or the loop's end
Step ==
    /\ fpc = "loop"
    /\ IF pos = Len(current_suggestions)
       THEN /\ fpc' = "done"
            /\ UNCHANGED <<pos, out>>
       ELSE IF /\ matches(current_suggestions[pos + 1][1], last_word)
               /\ Raises(current_suggestions[pos + 1][1], Len(last_word))
       THEN /\ fpc' = "raised"
            /\ UNCHANGED <<pos, out>>
       ELSE /\ fpc' = "loop"
            /\ pos' = pos + 1
            /\ out' = IF matches(current_suggestions[pos + 1][1], last_word)
                      THEN Append(out, MakeCompletion(current_suggestions[pos + 1][1],
                                                      current_suggestions[pos + 1][2],
                                                      Len(last_word)))
                      ELSE out
    /\ UNCHANGED <<text, cursor_position, last_word, columns, current_suggestions, phase>>
    /\ UNCHANGED loaderVars /\ UNCHANGED tokVars

\* the finished generator is dropped; the next keystroke starts a new call
Return ==
    /\ fpc \in {"done", "raised"}
    /\ fpc' = "idle"
    /\ text' = <<>>
    /\ cursor_position' = 0
    /\ last_word' = <<>>
    /\ columns' = <<>>
    /\ current_suggestions' = <<>>
    /\ pos' = 0
    /\ out' = <<>>
    /\ phase' = "none"
    /\ UNCHANGED loaderVars /\ UNCHANGED tokVars

Foreground ==
    \/ \E t \in Texts : \E c \in 0..Len(t) : Call(t, c)
    \/ BuildColumns
    \/ Concat
    \/ Step
    \/ Return

Next == Loader \/ Foreground

Spec == Init /\ [][Next]_vars

\* the foreground thread keeps running a call it has started; the loader may
\* stay blocked in the query for ever
SpecForeground == Spec /\ WF_vars(BuildColumns \/ Concat \/ Step)

\* the loader thread keeps running once the query has returned
SpecLoader == Spec /\ WF_vars(LoaderAssign \/ LoaderTableNames \/ LoaderExtend)

(***************************************************************************)
(* extract_last_word on its own, over texts of every delimiter.            *)
(***************************************************************************)
InitTok ==
    /\ InitCompleter
    /\ tok_pc = "call"
    /\ tok_text \in TokTexts
    /\ tok_word = <<>>
    /\ InitNoRender

Tokenize ==
    /\ tok_pc = "call"
    /\ tok_word' = extract_last_word(tok_text)
    /\ tok_pc' = "done"
    /\ UNCHANGED <<tok_text, rnd_pc, rnd_before, rnd_label, rnd_out>>
    /\ UNCHANGED loaderVars /\ UNCHANGED callVars

NextTok == Tokenize

SpecTok == InitTok /\ [][NextTok]_vars

(***************************************************************************)
(* get_completions for one candidate of text before the cursor `before`:   *)
(* the last word, the early return, the test of the loop and the           *)
(* Completion, over texts and labels with the sharp s and markup           *)
(* characters.                                                             *)
(***************************************************************************)
CompletionsOf(before, label, meta) ==
    LET word == upper(extract_last_word(before))
    IN  IF Len(word) = 0 THEN <<>>
        ELSE IF ~matches(label, word) THEN <<>>
        ELSE IF Raises(label, Len(word)) THEN ExpatError
        ELSE <<MakeCompletion(label, meta, Len(word))>>

InitRender ==
    /\ InitCompleter
    /\ tok_pc = "done"
    /\ tok_text = <<>>
    /\ tok_word = <<>>
    /\ rnd_pc = "call"
    /\ rnd_before \in WordTexts
    /\ rnd_label \in LabelTexts
    /\ rnd_out = <<>>

\* the call is consumed to its end: it yields its completions, or the error
\* of prepare_display_html leaves the generator, which has yielded nothing
Render ==
    /\ rnd_pc = "call"
    /\ LET word == upper(extract_last_word(rnd_before))
           raises == Len(word) > 0 /\ matches(rnd_label, word) /\ Raises(rnd_label, Len(word))
       IN  /\ rnd_out' = IF raises THEN <<>>
                         ELSE CompletionsOf(rnd_before, rnd_label, <<"TABLE">>)
           /\ rnd_pc' = IF raises THEN "raised" ELSE "done"
    /\ UNCHANGED <<tok_pc, tok_text, tok_word, rnd_before, rnd_label>>
    /\ UNCHANGED loaderVars /\ UNCHANGED callVars

NextRender == Render

SpecRender == InitRender /\ [][NextRender]_vars

(***************************************************************************)
(* Vocabulary of the properties.                                           *)
(***************************************************************************)
\* the call has ended: its loop is exhausted, or it has returned early, or
\* the error of prepare_display_html has left it
Ended == fpc \in {"done", "raised"}

\* the call in progress has built its candidate list
Built == fpc = "loop" \/ (fpc = "done" /\ Len(last_word) > 0)

TableSuggestions(order) == [i \in DOMAIN order |-> <<order[i], <<"TABLE">> >>]

TablesOf(rows) == {rows[i][1] : i \in DOMAIN rows}

\* the TABLE entries the loader has appended to self.suggestions
PublishedTables ==
    {suggestions[i][1] : i \in {j \in DOMAIN suggestions : suggestions[j][2] = <<"TABLE">>}}

\* the Schema Index: the row sequence and the table-name set
Index == <<column_names, PublishedTables>>
EmptyIndex == <<<<>>, {}>>

StaticMeta == {<<"KEYWORD">>, <<"FUNCTION">>}

\* the candidate list of a call that sees nothing of the load
PreLoadCandidates == StaticSuggestions

\* the candidate lists of a call for text t that sees the whole load of rows
PostLoadCandidates(rows, t) ==
    {StaticSuggestions \o TableSuggestions(order) \o ColumnSuggestions(rows, t) :
        order \in Orderings(TablesOf(rows))}

(***************************************************************************)
(* C1 - atomic publish: the candidate list a call builds is derived        *)
(* entirely from the pre-load state (static suggestions only) or entirely  *)
(* from the post-load state (every distinct table name and every row of    *)
(* the fetched data whose table occurs in the text), never from a mix.     *)
(* The code does not have this property.                                   *)
(***************************************************************************)
C1_AtomicPublish ==
    Built =>
        \/ current_suggestions = PreLoadCandidates
        \/ /\ ~NothingPublished
           /\ lpc \notin {"abandoned", "crashed"}
           /\ current_suggestions \in PostLoadCandidates(data, text)

(***************************************************************************)
(* C2 - a FireboltError raised by execute or by fetchall abandons the load *)
(* with the Schema Index empty (no rows, no table names), and from then on *)
(* every call emits only KEYWORD and FUNCTION candidates.                  *)
(***************************************************************************)
C2_FailedLoadKeepsStatic ==
    lpc = "abandoned" =>
        /\ Index = EmptyIndex
        /\ suggestions = StaticSuggestions
        /\ \A i \in DOMAIN out : out[i].display_meta \in StaticMeta
        /\ phase = "after_abandon" /\ Built => current_suggestions = StaticSuggestions

\* a call started after the load was abandoned, on a text naming a table, has
\* emitted its static candidates
C2_Witness ==
    /\ lpc = "abandoned"
    /\ phase = "after_abandon"
    /\ fpc = "done"
    /\ text = <<"a", "s">>
    /\ Len(out) = 1
    /\ out[1].display_meta = <<"KEYWORD">>

(***************************************************************************)
(* C3 - the Schema Index is one-shot: it starts empty, once it is not      *)
(* empty its row sequence and its table-name set never change again, and   *)
(* after a failed load or a load of no rows it is empty.  The code does    *)
(* not have this property: the table names arrive after the rows.          *)
(***************************************************************************)
C3_OneShotIndex ==
    /\ Index = EmptyIndex
    /\ [][Index # EmptyIndex => Index' = Index]_vars
    /\ [](lpc \in {"abandoned", "crashed"} \/ (lpc = "done" /\ data = <<>>)
             => Index = EmptyIndex)

(***************************************************************************)
(* C4 - the metadata query is issued exactly once per completer: never     *)
(* before the loader's execute step, once by it, and never again, neither  *)
(* after a success or a failure nor by a get_completions call.             *)
(***************************************************************************)
C4_QueryIssuedOnce == executed = (IF lpc = "execute" THEN 0 ELSE 1)

\* the load has failed, a later call has completed, and one query was issued
C4_Witness ==
    /\ lpc = "abandoned"
    /\ phase = "after_abandon"
    /\ fpc = "done"
    /\ Len(out) > 0
    /\ executed = 1

C6_StaticOnlyBeforeLoad ==
    phase = "before_load" =>
        /\ \A i \in DOMAIN current_suggestions : current_suggestions[i][2] \in StaticMeta
        /\ \A i \in DOMAIN out : out[i].display_meta \in StaticMeta

\* such a call has ended, and the schema loaded since holds a table named in
\* its text with a column its last word is a prefix of
C6_Witness ==
    /\ phase = "before_load"
    /\ fpc = "done"
    /\ Len(out) > 0
    /\ \E i \in DOMAIN column_names :
          /\ contains(text, column_names[i][1])
          /\ matches(column_names[i][2], last_word)

(***************************************************************************)
(* C7 - eventual inclusion.                                                *)
(***************************************************************************)
\* the current word of the call: the last word of the text before the cursor
CurrentWord == extract_last_word(text_before_cursor(text, cursor_position))

\* W is a case-insensitive prefix of L
IsPrefixCI(W, L) == startswith(upper(L), upper(W))

ColumnDetail(type, table) == <<"COLUMN (">> \o type \o <<", ">> \o table \o <<")">>

Populated == lpc = "done" /\ column_names = data /\ PublishedTables = TablesOf(data)

\* the completed call has emitted the COLUMN candidate of the row
EmitsColumnOf(row) ==
    \E j \in DOMAIN out :
        /\ out[j].text = row[2]
        /\ out[j].display_meta = ColumnDetail(row[3], row[1])

\* once the query has succeeded the index gets populated, and every call
\* started after that and ended, whose text contains a loaded table name and
\* whose current word is not empty and a case-insensitive prefix of one of
\* its columns, has emitted that column.  (For the empty current word no call
\* emits anything.)  The code does not have this property: a matching
\* candidate with '&' in its label, or '<' in its emphasized first characters,
\* makes the call raise before it reaches the column.
C7_EventualInclusion ==
    /\ (lpc = "assign") ~> Populated
    /\ [](phase = "after_load" /\ Ended /\ Len(CurrentWord) > 0 =>
            \A i \in DOMAIN column_names :
                contains(text, column_names[i][1])
                    /\ IsPrefixCI(CurrentWord, column_names[i][2])
                => EmitsColumnOf(column_names[i]))

(***************************************************************************)
(* C8 - extract_last_word returns the suffix of the text after the         *)
(* rightmost delimiter, the whole text when it has none; the result holds  *)
(* no delimiter and is empty exactly when the text is empty or ends with a *)
(* delimiter.                                                              *)
(***************************************************************************)
Delimiters == {" ", ",", "\n", ")", ";", "(", "."}

C8_LastWord ==
    tok_pc = "done" =>
        LET n == Len(tok_text)
            k == Len(tok_word)
        IN  /\ k <= n
            /\ \A i \in 1..k : tok_word[i] = tok_text[n - k + i]
            /\ \A i \in 1..k : tok_word[i] \notin Delimiters
            /\ k < n => tok_text[n - k] \in Delimiters
            /\ (\A i \in 1..n : tok_text[i] \notin Delimiters) => tok_word = tok_text
            /\ k = 0 <=> (n = 0 \/ tok_text[n] \in Delimiters)

\* a text with two different delimiters, the leftmost one occurring again after
\* the first occurrence of the other
C8_Witness ==
    /\ tok_pc = "done"
    /\ tok_text = <<"a", ".", "(", "a">>
    /\ tok_word = <<"a">>

(***************************************************************************)
(* C9 - when the current word is empty the call emits nothing, whatever    *)
(* the suggestions and the rows are and whatever the loader is doing.      *)
(***************************************************************************)
C9_EmptyWordEmitsNothing ==
    fpc # "idle" /\ Len(CurrentWord) = 0 => fpc = "done" /\ out = <<>>

\* a call on a text that ends with a delimiter has ended after a load of rows
C9_Witness ==
    /\ fpc = "done"
    /\ text = <<"s", " ">>
    /\ cursor_position = 2
    /\ phase = "after_load"
    /\ Len(column_names) > 0
    /\ out = <<>>

(***************************************************************************)
(* C10 - case-insensitive prefix law: for a non-empty current word W, a    *)
(* candidate with label L of the call's candidate list is emitted iff      *)
(* upper(L) starts with upper(W).  The code does not have this property:   *)
(* a matching candidate on which prepare_display_html raises is dropped,   *)
(* and every later matching candidate of the call with it.                 *)
(***************************************************************************)
C10_PrefixLaw ==
    Ended /\ Len(CurrentWord) > 0 =>
        /\ \A i \in DOMAIN current_suggestions :
              IsPrefixCI(CurrentWord, current_suggestions[i][1])
                  <=> \E j \in DOMAIN out :
                          /\ out[j].text = current_suggestions[i][1]
                          /\ out[j].display_meta = current_suggestions[i][2]
        /\ \A j \in DOMAIN out :
              \E i \in DOMAIN current_suggestions :
                  /\ out[j].text = current_suggestions[i][1]
                  /\ out[j].display_meta = current_suggestions[i][2]
                  /\ IsPrefixCI(CurrentWord, current_suggestions[i][1])

(***************************************************************************)
(* C11 - the part of the candidate list that a call builds itself is       *)
(* exactly one COLUMN suggestion per row of the index it reads whose table *)
(* name is a substring of the full text (on both sides of the cursor),     *)
(* labelled with the column name and detailed "COLUMN (<type>, <table>)";  *)
(* the other rows contribute nothing.                                      *)
(***************************************************************************)
\* sub occurs in t: some characters before it, then sub, then some after it
IsSubstring(sub, t) ==
    \E k \in 0..Len(t) :
        /\ k + Len(sub) <= Len(t)
        /\ \A i \in 1..Len(sub) : t[k + i] = sub[i]

\* the indices of the rows whose table name occurs in t
RowsNamedIn(rows, t) == {i \in DOMAIN rows : IsSubstring(rows[i][1], t)}

\* the k-th smallest element of a set of numbers
Kth(S, k) == CHOOSE i \in S : Cardinality({j \in S : j <= i}) = k

\* the entries of a list of suggestions whose detail is a column's
ColumnPart(list) == SelectSeq(list, LAMBDA sg : sg[2][1] = "COLUMN (")

C11_ColumnPerNamedRow ==
    /\ [][fpc = "columns" /\ fpc' = "concat" =>
            LET named == RowsNamedIn(column_names, text)
            IN  /\ Len(columns') = Cardinality(named)
                /\ \A k \in 1..Cardinality(named) :
                      LET row == column_names[Kth(named, k)]
                      IN  columns'[k] = <<row[2], ColumnDetail(row[3], row[1])>>]_vars
    /\ [](Built => ColumnPart(current_suggestions) = columns)

\* the index holds a row of table "s" and a row of table "aa"; in the text "aa"
\* the cursor stands inside the table name; the call has built one suggestion
C11_Witness ==
    /\ Built
    /\ text = <<"a", "a">>
    /\ cursor_position = 1
    /\ TablesOf(column_names) = {<<"s">>, <<"a", "a">>}
    /\ columns = << <<<<"A">>, <<"COLUMN (", "i", "n", "t", ", ", "a", "a", ")">> >> >>

(***************************************************************************)
(* C12 - order of the emitted sequence: matching static candidates come    *)
(* before matching COLUMN candidates, keywords before functions, the       *)
(* candidates of each static list in that list's order, and the COLUMN     *)
(* candidates in the order of their rows in the index.                     *)
(***************************************************************************)
\* (label, detail) of the completions emitted so far
Emitted == [j \in DOMAIN out |-> <<out[j].text, out[j].display_meta>>]

Labels(list) == [j \in DOMAIN list |-> list[j][1]]

OfKind(list, kind) == SelectSeq(list, LAMBDA sg : sg[2] = <<kind>>)

\* the strings of a list that the current word is a case-insensitive prefix of
MatchingWord(list) == SelectSeq(list, LAMBDA l : IsPrefixCI(CurrentWord, l))

\* the COLUMN suggestions, in row order, of the rows named in the text
RowOrderColumns(rows, t) ==
    LET named == SelectSeq(rows, LAMBDA row : IsSubstring(row[1], t))
    IN  [k \in DOMAIN named |-> <<named[k][2], ColumnDetail(named[k][3], named[k][1])>>]

C12_EmissionOrder ==
    fpc = "done" /\ Built =>
        /\ \A j, k \in DOMAIN out :
              /\ out[j].display_meta \in StaticMeta /\ out[k].display_meta[1] = "COLUMN ("
                    => j < k
              /\ out[j].display_meta = <<"KEYWORD">> /\ out[k].display_meta = <<"FUNCTION">>
                    => j < k
        /\ Labels(OfKind(Emitted, "KEYWORD")) = MatchingWord(KEYWORDS)
        /\ Labels(OfKind(Emitted, "FUNCTION")) = MatchingWord(FUNCTIONS)
        /\ \/ ColumnPart(Emitted) = <<>> /\ columns = <<>>
           \/ ColumnPart(Emitted) =
                 SelectSeq(RowOrderColumns(column_names, text),
                           LAMBDA sg : IsPrefixCI(CurrentWord, sg[1]))

\* two keywords, a function and the columns "A" and "as" of table "s", whose rows
\* stand in that order in the index, have been emitted in that order
C12_Witness ==
    /\ fpc = "done"
    /\ text = <<"a", "s">>
    /\ cursor_position = 1
    /\ Len(column_names) = 2
    /\ column_names[1][2] = <<"A">>
    /\ Labels(Emitted) = << <<"A", "L", "L">>, <<"A", "S">>, <<"A", "B", "S">>,
                            <<"A">>, <<"a", "s">> >>

(***************************************************************************)
(* C13 - every emitted completion has start_position = -len(current word), *)
(* and its display emphasizes exactly the first len(current word)          *)
(* characters of the label and leaves the rest unemphasized, the two parts *)
(* spelling the label.  The code does not have this property: it measures  *)
(* the upper-cased word, which can be longer than the word.                *)
(***************************************************************************)
\* the text of a piece of markup: the characters its entities stand for
Unescaped(t) ==
    [i \in DOMAIN t |-> CASE t[i] = "&#60;" -> "<" [] t[i] = "&#62;" -> ">" [] OTHER -> t[i]]

\* the display is: emphasis opened, the first n characters of the label,
\* emphasis closed, then markup that stands for the rest of the label
EmphasizesFirst(display, label, n) ==
    /\ n <= Len(label)
    /\ Len(display) = Len(label) + 2
    /\ display[1] = "<b><style color='red'>"
    /\ Slice(display, 1, 1 + n) = Prefix(label, n)
    /\ display[n + 2] = "</style></b>"
    /\ Unescaped(Suffix(display, n + 2)) = Suffix(label, n)

C13_OffsetAndEmphasis ==
    rnd_pc = "done" /\ rnd_out # <<>> =>
        LET n == Len(extract_last_word(rnd_before))
        IN  /\ rnd_out[1].start_position = -n
            /\ EmphasizesFirst(rnd_out[1].display, rnd_label, n)

(***************************************************************************)
(* C14 - in the display of every emitted completion each '<' and '>' of    *)
(* the label is escaped, wherever it stands in the label, the emphasized   *)
(* first characters included.  The code does not have this property: it    *)
(* escapes only the part after the emphasized characters, so a '>' there   *)
(* is emitted raw (and a '<' there makes the call raise).                  *)
(***************************************************************************)
C14_MarkupEscaped ==
    rnd_pc = "done" /\ rnd_out # <<>> =>
        \A i \in DOMAIN rnd_out[1].display : rnd_out[1].display[i] \notin {"<", ">"}

(***************************************************************************)
(* C15 - an error of the load that is not a FireboltError is not           *)
(* swallowed: the loader ends with that error propagated, an outcome other *)
(* than the silent abandon, which only a FireboltError leads to.           *)
(***************************************************************************)
C15_OtherErrorsPropagate ==
    /\ raised = "OtherError" => lpc = "crashed"
    /\ lpc = "crashed" => raised = "OtherError"
    /\ lpc = "abandoned" => raised = "FireboltError"
    /\ raised = "none" => lpc \notin {"abandoned", "crashed"}

\* the thread has ended with an exception that is not a FireboltError; a call
\* made since has emitted static candidates
C15_Witness ==
    /\ raised = "OtherError"
    /\ lpc = "crashed"
    /\ fpc = "done"
    /\ Len(out) > 0

(***************************************************************************)
(* C16 - after a successful load each distinct table name of the loaded    *)
(* rows is offered as exactly one TABLE candidate, none twice and none     *)
(* missing, and that candidate is emitted whenever the current word is a   *)
(* case-insensitive prefix of the table name, whether or not the table     *)
(* name occurs in the input text.                                          *)
(***************************************************************************)
\* the number of completions of the call with this label and this detail
CountEmitted(label, meta) ==
    Cardinality({j \in DOMAIN out : out[j].text = label /\ out[j].display_meta = meta})

\* the TABLE entries of the shared list name each loaded table exactly once
OneEntryPerTable ==
    Labels(OfKind(suggestions, "TABLE")) \in Orderings(TablesOf(column_names))

\* stated for calls whose current word is not empty (for the empty word no
\* call emits anything).  The code does not have this property: a table name
\* with '&', or with '<' in its first characters, makes the call raise.
C16_TableCandidates ==
    /\ lpc = "done" => OneEntryPerTable
    /\ phase = "after_load" /\ Ended /\ Len(CurrentWord) > 0 =>
          \A t \in TablesOf(column_names) :
              IsPrefixCI(CurrentWord, t) => CountEmitted(t, <<"TABLE">>) = 1

(***************************************************************************)
(* C17 - frame condition of the foreground: a step of a get_completions    *)
(* call, for any input and in any loader state, leaves the rows, the       *)
(* table-name suggestions and the static catalog unchanged; every write to *)
(* the shared state is made by a step of the loader.                       *)
(***************************************************************************)
\* the state shared by the two threads
Shared == <<column_names, suggestions>>

C17_ForegroundFrame ==
    [][/\ callVars' # callVars => Shared' = Shared
       /\ Shared' # Shared => lpc \in {"assign", "extend"} /\ callVars' = callVars]_vars

\* a call that overlapped the load has run to its end and emitted a column; the
\* rows and the suggestion list are as the loader left them
C17_Witness ==
    /\ phase = "overlaps"
    /\ fpc = "done"
    /\ lpc = "done"
    /\ \E j \in DOMAIN out : out[j].display_meta[1] = "COLUMN ("
    /\ column_names = data
    /\ Len(data) > 0
    /\ suggestions \in {StaticSuggestions \o TableSuggestions(order) :
                           order \in Orderings(TablesOf(data))}

(***************************************************************************)
(* C18 - rows are not deduplicated: the published row sequence equals the  *)
(* sequence the metadata query returned, in the same order and with the    *)
(* same multiplicities, so a (table, column) pair returned k times yields  *)
(* k COLUMN candidates in a call that matches it.  The code does not have  *)
(* the second part: a call that raises on an earlier candidate yields none *)
(* of them.                                                                *)
(***************************************************************************)
\* the number of rows of the query's result for this table and column
Returned(table, column) ==
    Cardinality({i \in DOMAIN data : data[i][1] = table /\ data[i][2] = column})

\* the number of COLUMN completions of the call for this table and column
ColumnsEmitted(table, column) ==
    Cardinality({j \in DOMAIN out :
        /\ out[j].text = column
        /\ \E row \in Range(data) :
              /\ row[1] = table
              /\ row[2] = column
              /\ out[j].display_meta = ColumnDetail(row[3], table)})

C18_RowsNotDeduplicated ==
    /\ lpc \in {"table_names", "extend", "done"} => column_names = data
    /\ phase = "after_load" /\ Ended /\ Len(CurrentWord) > 0 =>
          \A i \in DOMAIN data :
              contains(text, data[i][1]) /\ IsPrefixCI(CurrentWord, data[i][2])
                  => ColumnsEmitted(data[i][1], data[i][2]) = Returned(data[i][1], data[i][2])

(***************************************************************************)
(* C19 - per-call snapshot isolation: the candidates of one call are all   *)
(* taken from one candidate list, fixed when the loop starts; a publish of *)
(* the loader while the list is partly consumed changes none of the items  *)
(* still to be emitted, and a call starts with no iteration state of an    *)
(* earlier call.                                                           *)
(***************************************************************************)
\* the completions of the matching items of a list, in its order
RECURSIVE CompletionsOfList(_, _)
CompletionsOfList(list, word) ==
    IF list = <<>> THEN <<>>
    ELSE LET front == CompletionsOfList(Prefix(list, Len(list) - 1), word)
             item == list[Len(list)]
         IN  IF matches(item[1], word)
             THEN Append(front, MakeCompletion(item[1], item[2], Len(word)))
             ELSE front

C19_SnapshotIsolation ==
    /\ [][/\ fpc = "loop" => current_suggestions' = current_suggestions
          /\ fpc = "concat" /\ fpc' = "loop" => pos' = 0 /\ out' = <<>>]_vars
    /\ [](Built => /\ pos <= Len(current_suggestions)
                   /\ out = CompletionsOfList(Prefix(current_suggestions, pos), last_word))

\* the loop is under way on a list copied before the loader appended a table
\* name; the shared list has the TABLE entry, the call's list has none
C19_Witness ==
    /\ fpc = "loop"
    /\ pos > 0
    /\ pos < Len(current_suggestions)
    /\ Len(out) > 0
    /\ OfKind(current_suggestions, "TABLE") = <<>>
    /\ OfKind(suggestions, "TABLE") # <<>>

(***************************************************************************)
(* C20 - the static catalog is immutable: in every reachable state the     *)
(* shared suggestion list begins with exactly the KEYWORD entries in       *)
(* keyword-list order followed by exactly the FUNCTION entries in          *)
(* function-list order; the loader only appends after them and never       *)
(* removes, replaces or reorders a static entry.                           *)
(***************************************************************************)
C20_StaticCatalogImmutable ==
    /\ [](/\ Prefix(suggestions, Len(KEYWORDS)) = [i \in DOMAIN KEYWORDS |-> <<KEYWORDS[i], <<"KEYWORD">> >>]
          /\ Slice(suggestions, Len(KEYWORDS), Len(KEYWORDS) + Len(FUNCTIONS))
                = [i \in DOMAIN FUNCTIONS |-> <<FUNCTIONS[i], <<"FUNCTION">> >>]
          /\ Labels(OfKind(suggestions, "KEYWORD")) = KEYWORDS
          /\ Labels(OfKind(suggestions, "FUNCTION")) = FUNCTIONS)
    /\ [][suggestions' # suggestions =>
             /\ Len(suggestions') = Len(suggestions) + 1
             /\ Prefix(suggestions', Len(suggestions)) = suggestions
             /\ suggestions'[Len(suggestions')][2] = <<"TABLE">>]_vars

\* the loader has appended two table names behind the four static entries
C20_Witness ==
    /\ lpc = "done"
    /\ Len(suggestions) = Len(KEYWORDS) + Len(FUNCTIONS) + 2
    /\ Prefix(suggestions, Len(KEYWORDS) + Len(FUNCTIONS)) = StaticSuggestions
    /\ Len(OfKind(suggestions, "TABLE")) = 2

====
